---- MODULE Spec2Model ----
(***************************************************************************)
(* AI news generation pipeline of the backend:                             *)
(*   router generate_ai_news -> GenerateAINewsUseCase.execute              *)
(*     -> NewsGenerationAgent.generate_news (attempt loop, parse, validate)*)
(*     -> CreateNewsUseCase.execute -> MongoDBNewsRepository               *)
(*                                                                         *)
(* Strings are represented by the features the code reads from them:       *)
(* their length in characters, their number of whitespace separated words, *)
(* whether they contain a placeholder marker or a clickbait phrase, how    *)
(* many keywords of each category they contain, and an identity of their   *)
(* first 50 characters (head).  Floats in [0,1] are counted in tenths.     *)
(***************************************************************************)
EXTENDS Integers, Sequences, FiniteSets, TLC

VARIABLES
    pc,          \* per request: position in the handler
    req,         \* per request: [user_id, count, categories_valid]
    failFirst,   \* per request: the provider fails on the first failFirst calls
    attempt,     \* per request: loop variable of generate_news
    calls,       \* per request: the provider calls made so far, [error, pieces]
    sleeps,      \* per request: durations passed to asyncio.sleep so far
    parsed,      \* per request: response.news_items before validation
    news_items,  \* per request: response.news_items after validation
    idx,         \* per request: position of the persistence loop in news_items
    pending,     \* per request: NewsItem built by CreateNewsUseCase, not yet saved
    created,     \* per request: created_news of GenerateAINewsUseCase.execute
    createCalls, \* per request: calls made to the news-creation use case
    exc,         \* per request: exception that left use_case.execute, or "none"
    status,      \* per request: HTTP status answered, 0 while running
    store,       \* the news_items collection, in insertion order
    vIn, vMin, vOut, vDone, \* a direct call of _validate_news_items
    unit,        \* a direct call of one other function: [fn, arg, out, done]
    ops,         \* per news operation: the running delete / toggle / list call
    uops,        \* per user operation: the running CreateUserUseCase.execute
    users        \* the users collection, in insertion order

vars == <<pc, req, failFirst, attempt, calls, sleeps, parsed, news_items, idx,
          pending, created, createCalls, exc, status, store,
          vIn, vMin, vOut, vDone, unit, ops, uops, users>>

(* The state of the user and news operations and of direct calls *)
others == <<unit, ops, uops, users>>

----------------------------------------------------------------------------
(* Bounds of the model *)

MaxCount == 2      \* largest count requested
MaxSegs == 2       \* largest number of pieces in a provider response
MaxItems == 2      \* longest list handed to a direct _validate_news_items call

Procs == {1, 2}
Users == {"u1", "u2"}

----------------------------------------------------------------------------
(* Enumerations *)

AINewsCategory ==
    <<"breakthrough", "research", "product_launch", "industry_update",
      "policy_regulation", "tutorial_guide", "opinion_analysis">>

AICategories == {AINewsCategory[i] : i \in 1..Len(AINewsCategory)}

NewsCategory == {"general", "research", "product", "company", "tutorial", "opinion"}

max_attempts == 3
DefaultMinRelevance == 7
ParsedRelevance == 8
FallbackRelevance == 7

Min(a, b) == IF a < b THEN a ELSE b

RECURSIVE Pow2Shifted(_)
Pow2Shifted(n) == IF n = 0 THEN 2 ELSE 2 * Pow2Shifted(n - 1)

(* 2 ** attempt *)
RECURSIVE Pow2(_)
Pow2(n) == IF n = 0 THEN 1 ELSE 2 * Pow2(n - 1)

NoKw == [c \in AICategories |-> 0]

Kw(c, n) == [NoKw EXCEPT ![c] = n]

----------------------------------------------------------------------------
(* Texts.  A string is [head, chars, words, ph, click]: the identity of its  *)
(* first 50 characters, len(s), len(s.split()), whether it contains one of  *)
(* "[", "]", "TODO", "FIXME", "XXX", and whether it contains a clickbait    *)
(* phrase in any letter case.                                               *)

Str(h, c, w, p, k) == [head |-> h, chars |-> c, words |-> w, ph |-> p, click |-> k]

(* A piece of a provider response, as re.split leaves it:                   *)
(* chars = len(piece.strip()), lines = number of lines, title = the first   *)
(* line after the clean-up of lines 326-327, rest = ' '.join(lines[1:]),    *)
(* kw = number of keywords of each category in title + " " + summary.       *)
Piece(c, l, t, r, k) == [chars |-> c, lines |-> l, title |-> t, rest |-> r, kw |-> k]

PieceBlank == Piece(0, 0, Str(<<>>, 0, 0, FALSE, FALSE), Str(<<>>, 0, 0, FALSE, FALSE), NoKw)

PieceShort == Piece(30, 1, Str(<<"Here are the news">>, 30, 6, FALSE, FALSE),
                    Str(<<>>, 0, 0, FALSE, FALSE), NoKw)

PieceAlpha == Piece(140, 2, Str(<<"Alpha model released today">>, 40, 5, FALSE, FALSE),
                    Str(<<"The lab">>, 99, 16, FALSE, FALSE), Kw("product_launch", 1))

PieceBeta == Piece(150, 3, Str(<<"Beta rules for models">>, 44, 6, FALSE, FALSE),
                   Str(<<"Lawmakers">>, 105, 17, FALSE, FALSE),
                   [NoKw EXCEPT !["policy_regulation"] = 2, !["research"] = 1])

PieceClick == Piece(130, 2, Str(<<"Breaking: gamma model">>, 35, 4, FALSE, TRUE),
                    Str(<<"A new">>, 94, 15, FALSE, FALSE), Kw("breakthrough", 1))

PieceThin == Piece(52, 2, Str(<<"Delta">>, 5, 1, FALSE, FALSE),
                   Str(<<"Delta was shown">>, 46, 8, FALSE, FALSE), NoKw)

PieceWeak == Piece(80, 2, Str(<<"Epsilon update">>, 14, 2, FALSE, FALSE),
                   Str(<<"Epsilon got">>, 65, 12, FALSE, FALSE), Kw("opinion_analysis", 2))

PieceMarker == Piece(120, 2, Str(<<"Zeta paper [1] is out">>, 30, 6, TRUE, FALSE),
                     Str(<<"The paper">>, 89, 14, FALSE, FALSE),
                     [NoKw EXCEPT !["research"] = 1, !["tutorial_guide"] = 1])

PieceKinds == {PieceBlank, PieceShort, PieceAlpha, PieceBeta, PieceClick,
               PieceThin, PieceWeak, PieceMarker}

SeqsUpTo(S, n) == UNION {[1..k -> S] : k \in 0..n}

(* The completions the provider may answer with. *)
Completions == SeqsUpTo(PieceKinds, MaxSegs)

(* The fixed completion substituted when the provider call raised. *)
FallbackCompletion(count) ==
    LET n == IF count < 10 THEN 199 ELSE 200
        line == Str(<<"Recent AI developments include advances in machine">>,
                    n, 25, FALSE, FALSE)
    IN  <<Piece(n, 1, line, Str(<<>>, 0, 0, FALSE, FALSE),
                [NoKw EXCEPT !["breakthrough"] = 1, !["research"] = 1,
                             !["tutorial_guide"] = 1])>>

----------------------------------------------------------------------------
(* NewsGenerationAgent._categorize_news *)

CategorizeNewsLast(kw) ==
    LET scored == {i \in 1..Len(AINewsCategory) : kw[AINewsCategory[i]] > 0}
        best == {i \in scored : \A j \in scored :
                                  kw[AINewsCategory[j]] <= kw[AINewsCategory[i]]}
    IN  IF scored = {} THEN "industry_update"
        ELSE AINewsCategory[CHOOSE i \in best : \A j \in best : j <= i]

CategorizeNews(kw) ==
    LET scored == {i \in 1..Len(AINewsCategory) : kw[AINewsCategory[i]] > 0}
        best == {i \in scored : \A j \in scored :
                                  kw[AINewsCategory[j]] <= kw[AINewsCategory[i]]}
    IN  IF scored = {} THEN "industry_update"
        ELSE AINewsCategory[CHOOSE i \in best : \A j \in best : i <= j]

(* AIGeneratedNews: the field constraints and validate_title *)
ConstructionFails(title, summary, contentChars) ==
    \/ title.chars < 10 \/ title.chars > 200
    \/ summary.chars < 50 \/ summary.chars > 500
    \/ contentChars < 100 \/ contentChars > 2000
    \/ title.click

PerplexitySource == "Perplexity AI Research"

LinkOfWhole(title) ==
    <<"https://perplexity.ai/search?q=">> \o title.head \o <<ToString(title.chars)>>

(* Line 361: title.replace(' ', '+')[:50] after the query prefix *)
LinkOf(title) == <<"https://perplexity.ai/search?q=">> \o title.head

(* The candidate built from one segment, lines 321-365 *)
CandidateOf(segment) ==
    LET title0 == segment.title
        title1 == IF title0.chars < 10
                  THEN Str(<<"Latest AI Development: ">> \o title0.head,
                           title0.chars + 23, title0.words + 3, title0.ph, title0.click)
                  ELSE title0
        summary0 == IF segment.lines > 1 THEN segment.rest
                    ELSE Str(segment.title.head, segment.chars, segment.title.words,
                             segment.title.ph, segment.title.click)
        summary1 == IF summary0.chars < 50
                    THEN [summary0 EXCEPT !.chars = @ + 95, !.words = @ + 11]
                    ELSE summary0
        title == [title1 EXCEPT !.chars = Min(@, 200)]
        summary == [summary1 EXCEPT !.chars = Min(@, 500)]
        contentChars == IF summary.chars > 500 THEN Min(summary.chars, 2000)
                        ELSE summary.chars + 1 + Min(segment.chars, 1500)
    IN  [title |-> title, summary |-> summary, contentChars |-> contentChars,
         category |-> CategorizeNews(segment.kw), source |-> PerplexitySource,
         link |-> LinkOf(title), relevance_score |-> ParsedRelevance]

FallbackItemWordy(n) ==
    [title |-> Str(<<"AI Research Update #", ToString(n)>>, 21, 4, FALSE, FALSE),
     summary |-> Str(<<"Latest developments in artificial intelligence">>,
                     81, 10, FALSE, FALSE),
     contentChars |-> 203, category |-> "research", source |-> "AI Research News",
     link |-> <<"https://example.com/ai-research">>,
     relevance_score |-> FallbackRelevance]

FallbackItem(n) ==
    [title |-> Str(<<"AI Research Update #", ToString(n)>>, 21, 4, FALSE, FALSE),
     summary |-> Str(<<"Latest developments in artificial intelligence">>,
                     77, 9, FALSE, FALSE),
     contentChars |-> 203, category |-> "research", source |-> "AI Research News",
     link |-> <<"https://example.com/ai-research">>,
     relevance_score |-> FallbackRelevance]

(* Lines 309-315: the pieces that are not blank after strip() *)
Segments(ai_content) == SelectSeq(ai_content, LAMBDA seg : seg.chars > 0)

Take(s, n) == SubSeq(s, 1, Min(n, Len(s)))

RECURSIVE ParseLoopSkip(_, _, _, _)
ParseLoopSkip(segs, i, items, requested_count) ==
    IF i > Len(segs) THEN [raised |-> FALSE, items |-> items]
    ELSE IF segs[i].chars < 50 THEN ParseLoopSkip(segs, i + 1, items, requested_count)
    ELSE LET c == CandidateOf(segs[i])
         IN  IF ConstructionFails(c.title, c.summary, c.contentChars)
             THEN ParseLoopSkip(segs, i + 1, items, requested_count)
             ELSE IF Len(items) + 1 >= requested_count
                  THEN [raised |-> FALSE, items |-> Append(items, c)]
                  ELSE ParseLoopSkip(segs, i + 1, Append(items, c), requested_count)

(* Lines 317-370: returns [raised, items] *)
RECURSIVE ParseLoop(_, _, _, _)
ParseLoop(segs, i, items, requested_count) ==
    IF i > Len(segs) THEN [raised |-> FALSE, items |-> items]
    ELSE IF segs[i].chars < 50 THEN ParseLoop(segs, i + 1, items, requested_count)
    ELSE LET c == CandidateOf(segs[i])
         IN  IF ConstructionFails(c.title, c.summary, c.contentChars)
             THEN [raised |-> TRUE, items |-> items]
             ELSE IF Len(items) + 1 >= requested_count
                  THEN [raised |-> FALSE, items |-> Append(items, c)]
                  ELSE ParseLoop(segs, i + 1, Append(items, c), requested_count)

RECURSIVE AddFallbackFill(_, _)
AddFallbackFill(items, requested_count) ==
    IF Len(items) < requested_count
    THEN AddFallbackFill(Append(items, FallbackItem(Len(items) + 1)), requested_count)
    ELSE items

(* Lines 372-390 *)
RECURSIVE AddFallback(_, _)
AddFallback(items, requested_count) ==
    IF Len(items) < Min(requested_count, 1)
    THEN AddFallback(Append(items, FallbackItem(Len(items) + 1)), requested_count)
    ELSE items

ParseUncapped(ai_content, requested_count) ==
    LET r == ParseLoop(Segments(ai_content), 1, <<>>, Len(ai_content) + 1)
    IN  IF r.raised THEN r
        ELSE [raised |-> FALSE, items |-> AddFallback(r.items, requested_count)]

(* NewsGenerationAgent._parse_ai_response *)
ParseAIResponse(ai_content, requested_count) ==
    LET r == ParseLoop(Take(Segments(ai_content), requested_count), 1, <<>>,
                       requested_count)
    IN  IF r.raised THEN r
        ELSE [raised |-> FALSE, items |-> AddFallback(r.items, requested_count)]

----------------------------------------------------------------------------
(* NewsGenerationAgent._validate_news_items *)

HasPlaceholder(item) == item.title.ph \/ item.summary.ph

RECURSIVE ValidateLoop(_, _, _, _)
ValidateLoop(items, i, validated, min_relevance) ==
    IF i > Len(items) THEN validated
    ELSE LET item == items[i]
         IN  IF item.relevance_score < min_relevance
             THEN ValidateLoop(items, i + 1, validated, min_relevance)
             ELSE IF item.title.words < 3
             THEN ValidateLoop(items, i + 1, validated, min_relevance)
             ELSE IF item.summary.words < 10
             THEN ValidateLoop(items, i + 1, validated, min_relevance)
             ELSE IF HasPlaceholder(item)
             THEN ValidateLoop(items, i + 1, validated, min_relevance)
             ELSE ValidateLoop(items, i + 1, Append(validated, item), min_relevance)

ValidateExclusive(items, min_relevance) ==
    ValidateLoop(items, 1, <<>>, min_relevance + 1)

ValidateNewsItems(items, min_relevance) == ValidateLoop(items, 1, <<>>, min_relevance)

----------------------------------------------------------------------------
(* GenerateAINewsUseCase._convert_and_store_news: category_mapping *)

category_mapping_slip ==
    [c \in AICategories |->
        CASE c = "breakthrough" -> "research"
          [] c = "research" -> "research"
          [] c = "product_launch" -> "product"
          [] c = "industry_update" -> "company"
          [] c = "policy_regulation" -> "company"
          [] c = "tutorial_guide" -> "tutorial"
          [] c = "opinion_analysis" -> "opinion"]

category_mapping ==
    [c \in {"breakthrough", "research", "product_launch", "industry_update",
            "policy_regulation", "tutorial_guide", "opinion_analysis"} |->
        CASE c = "breakthrough" -> "research"
          [] c = "research" -> "research"
          [] c = "product_launch" -> "product"
          [] c = "industry_update" -> "company"
          [] c = "policy_regulation" -> "general"
          [] c = "tutorial_guide" -> "tutorial"
          [] c = "opinion_analysis" -> "opinion"]

DomainCategory(value) ==
    IF value \in DOMAIN category_mapping THEN category_mapping[value] ELSE "general"

StatusGeneric(e) == IF e = "none" THEN 200 ELSE 500

(* ai_news.py: the except clauses of generate_ai_news *)
StatusFor(e) ==
    IF e = "none" THEN 200
    ELSE IF e = "AINewsGenerationException" THEN 503
    ELSE 500

----------------------------------------------------------------------------
(* The news_items collection.  _ensure_indexes declares a unique index on   *)
(* (link, user_id): insert_one raises DuplicateKeyError on a conflict.      *)

CountDocuments(collection, link, user_id) ==
    Cardinality({i \in 1..Len(collection) :
                   collection[i].link = link /\ collection[i].user_id = user_id})

ExistsOffByOne(collection, link, user_id) ==
    CountDocuments(collection, link, user_id) > 1

(* MongoDBNewsRepository.exists_by_link_and_user *)
ExistsByLinkAndUser(collection, link, user_id) ==
    CountDocuments(collection, link, user_id) > 0

InsertOneNoIndex(collection, doc) ==
    [ok |-> TRUE,
     collection |-> Append(collection, [doc EXCEPT !.id = Len(collection) + 1])]

(* insert_one under the unique index on (link, user_id) *)
InsertOne(collection, doc) ==
    IF \E i \in 1..Len(collection) :
          collection[i].link = doc.link /\ collection[i].user_id = doc.user_id
    THEN [ok |-> FALSE, collection |-> collection]
    ELSE [ok |-> TRUE,
          collection |-> Append(collection, [doc EXCEPT !.id = Len(collection) + 1])]

(* CreateNewsUseCase.execute, lines 57-70: the entity handed to the repository *)
NewsItem(source, title, summary, link, category, user_id) ==
    [id |-> 0, source |-> source, title |-> title, summary |-> summary,
     link |-> link, category |-> category, user_id |-> user_id,
     status |-> "pending", is_favorite |-> FALSE]

(* _convert_and_store_news up to the duplicate check of CreateNewsUseCase *)
ConvertNews(ai_news, user_id) ==
    NewsItem(ai_news.source, ai_news.title, ai_news.summary, ai_news.link,
             DomainCategory(ai_news.category), user_id)

----------------------------------------------------------------------------
(* The handler, one request p at a time *)

(* generate_ai_news entered: execute builds the NewsGenerationRequest *)
Start(p) ==
    /\ pc[p] = "idle"
    /\ IF req[p].categories_valid
       THEN /\ pc' = [pc EXCEPT ![p] = "attempt"]
            /\ UNCHANGED <<exc, status>>
       ELSE /\ exc' = [exc EXCEPT ![p] = "ValidationError"]
            /\ status' = [status EXCEPT ![p] = StatusFor("ValidationError")]
            /\ pc' = [pc EXCEPT ![p] = "done"]
    /\ UNCHANGED <<req, failFirst, attempt, calls, sleeps, parsed, news_items, idx,
                   pending, created, createCalls, store, vIn, vMin, vOut, vDone, others>>

(* What the provider call of one attempt comes to: an exception, or the   *)
(* content of a 200 response                                               *)
Raises(e) == [error |-> e, content |-> <<>>]

Answers(a) == [error |-> "none", content |-> a]

(* Position in the segments of the first one whose candidate cannot be    *)
(* constructed, 0 when there is none                                       *)
FirstBad(content) ==
    LET segs == Segments(content)
        bad == {i \in 1..Len(segs) :
                  /\ segs[i].chars >= 50
                  /\ ConstructionFails(CandidateOf(segs[i]).title,
                                       CandidateOf(segs[i]).summary,
                                       CandidateOf(segs[i]).contentChars)}
    IN  IF bad = {} THEN 0 ELSE CHOOSE i \in bad : \A j \in bad : i <= j

AttemptBodyPropagates(outcome, count) ==
    IF outcome.error # "none" THEN [raised |-> TRUE, items |-> <<>>]
    ELSE ParseAIResponse(outcome.content, count)

(* Lines 156-212: the provider call with its fallback, then the parse *)
AttemptBody(outcome, count) ==
    LET ai_content == IF outcome.error # "none"
                      THEN FallbackCompletion(count)
                      ELSE outcome.content
    IN  ParseAIResponse(ai_content, count)

IsLastAttemptNever(a) == FALSE

(* Line 235: attempt == max_attempts - 1 *)
IsLastAttempt(a) == a = max_attempts - 1

(* The exceptions the provider call itself can raise inside an attempt:    *)
(* a non-200 status, a timeout, a body without choices[0].message.content  *)
ProviderErrors == {"HTTPStatusError", "ReadTimeout", "KeyError"}

(* One pass of the attempt loop of generate_news, lines 156-238 *)
AttemptWith(p, answers, errors) ==
    /\ pc[p] = "attempt"
    /\ \E outcome \in (IF Len(calls[p]) < failFirst[p]
                       THEN {Raises("ConnectError")}
                       ELSE {Raises(e) : e \in errors} \cup {Answers(a) : a \in answers}) :
         LET r == AttemptBody(outcome, req[p].count)
         IN  /\ calls' = [calls EXCEPT ![p] =
                            Append(@, [error |-> outcome.error,
                                       pieces |-> Len(outcome.content),
                                       firstBad |-> FirstBad(outcome.content),
                                       raised |-> r.raised,
                                       built |-> IF r.raised THEN Len(r.items) ELSE 0])]
             /\ IF r.raised
                THEN IF IsLastAttempt(attempt[p])
                     THEN /\ exc' = [exc EXCEPT ![p] = "AINewsGenerationException"]
                          /\ status' = [status EXCEPT ![p] =
                                          StatusFor("AINewsGenerationException")]
                          /\ pc' = [pc EXCEPT ![p] = "done"]
                          /\ UNCHANGED <<parsed, news_items, idx>>
                     ELSE /\ pc' = [pc EXCEPT ![p] = "sleep"]
                          /\ UNCHANGED <<exc, status, parsed, news_items, idx>>
                ELSE /\ parsed' = [parsed EXCEPT ![p] = r.items]
                     /\ news_items' = [news_items EXCEPT ![p] =
                                         ValidateNewsItems(r.items, DefaultMinRelevance)]
                     /\ idx' = [idx EXCEPT ![p] = 1]
                     /\ pc' = [pc EXCEPT ![p] = "persist"]
                     /\ UNCHANGED <<exc, status>>
    /\ UNCHANGED <<req, failFirst, attempt, sleeps, pending, created, createCalls,
                   store, vIn, vMin, vOut, vDone, others>>

(* Line 239: asyncio.sleep(2 ** attempt), then the next pass of             *)
(* `for attempt in range(max_attempts)`.  When the range is used up the     *)
(* function falls off its end and returns None, and execute fails on        *)
(* response.news_items.                                                     *)
Backoff(p) ==
    /\ pc[p] = "sleep"
    /\ sleeps' = [sleeps EXCEPT ![p] = Append(@, Pow2(attempt[p]))]
    /\ IF attempt[p] + 1 < max_attempts
       THEN /\ attempt' = [attempt EXCEPT ![p] = @ + 1]
            /\ pc' = [pc EXCEPT ![p] = "attempt"]
            /\ UNCHANGED <<exc, status>>
       ELSE /\ exc' = [exc EXCEPT ![p] = "AttributeError"]
            /\ status' = [status EXCEPT ![p] = StatusFor("AttributeError")]
            /\ pc' = [pc EXCEPT ![p] = "done"]
            /\ UNCHANGED attempt
    /\ UNCHANGED <<req, failFirst, calls, parsed, news_items, idx, pending, created,
                   createCalls, store, vIn, vMin, vOut, vDone, others>>

AfterFailureBreak(p, i) == Len(news_items[p]) + 1

(* The except clause of execute, lines 57-60: on to the next candidate *)
AfterFailure(p, i) == i + 1

(* The persistence loop reaches a candidate: _convert_and_store_news up to   *)
(* and including the exists_by_link_and_user check                           *)
CheckDuplicate(p) ==
    /\ pc[p] = "persist"
    /\ idx[p] <= Len(news_items[p])
    /\ LET ai_news == news_items[p][idx[p]]
           item == ConvertNews(ai_news, req[p].user_id)
       IN  IF ExistsByLinkAndUser(store, item.link, item.user_id)
           THEN /\ createCalls' = [createCalls EXCEPT ![p] =
                      Append(@, [ai_news |-> ai_news, category |-> item.category,
                                 result |-> "DuplicateNewsException"])]
                /\ idx' = [idx EXCEPT ![p] = AfterFailure(p, @)]
                /\ UNCHANGED <<pc, pending>>
           ELSE /\ createCalls' = [createCalls EXCEPT ![p] =
                      Append(@, [ai_news |-> ai_news, category |-> item.category,
                                 result |-> "running"])]
                /\ pending' = [pending EXCEPT ![p] = <<item>>]
                /\ pc' = [pc EXCEPT ![p] = "create"]
                /\ UNCHANGED idx
    /\ UNCHANGED <<req, failFirst, attempt, calls, sleeps, parsed, news_items,
                   created, exc, status, store, vIn, vMin, vOut, vDone, others>>

SetResult(log, result) == [log EXCEPT ![Len(log)].result = result]

(* news_repository.create: insert_one answers *)
Create(p) ==
    /\ pc[p] = "create"
    /\ LET r == InsertOne(store, pending[p][1])
       IN  IF r.ok
           THEN /\ store' = r.collection
                /\ created' = [created EXCEPT ![p] = Append(@, r.collection[Len(r.collection)])]
                /\ createCalls' = [createCalls EXCEPT ![p] = SetResult(@, "stored")]
                /\ idx' = [idx EXCEPT ![p] = @ + 1]
           ELSE /\ createCalls' = [createCalls EXCEPT ![p] = SetResult(@, "DuplicateKeyError")]
                /\ idx' = [idx EXCEPT ![p] = AfterFailure(p, @)]
                /\ UNCHANGED <<store, created>>
    /\ pending' = [pending EXCEPT ![p] = <<>>]
    /\ pc' = [pc EXCEPT ![p] = "persist"]
    /\ UNCHANGED <<req, failFirst, attempt, calls, sleeps, parsed, news_items,
                   exc, status, vIn, vMin, vOut, vDone, others>>

(* news_repository.create: the storage layer fails for another reason *)
CreateFails(p) ==
    /\ pc[p] = "create"
    /\ createCalls' = [createCalls EXCEPT ![p] = SetResult(@, "StorageError")]
    /\ idx' = [idx EXCEPT ![p] = AfterFailure(p, @)]
    /\ pending' = [pending EXCEPT ![p] = <<>>]
    /\ pc' = [pc EXCEPT ![p] = "persist"]
    /\ UNCHANGED <<req, failFirst, attempt, calls, sleeps, parsed, news_items,
                   created, exc, status, store, vIn, vMin, vOut, vDone, others>>

(* The loop is over: execute returns created_news, the router answers *)
Respond(p) ==
    /\ pc[p] = "persist"
    /\ idx[p] > Len(news_items[p])
    /\ status' = [status EXCEPT ![p] = StatusFor(exc[p])]
    /\ pc' = [pc EXCEPT ![p] = "done"]
    /\ UNCHANGED <<req, failFirst, attempt, calls, sleeps, parsed, news_items, idx,
                   pending, created, createCalls, exc, store, vIn, vMin, vOut, vDone, others>>

(* A direct call of _validate_news_items *)
ValidateCall ==
    /\ ~vDone
    /\ vOut' = ValidateNewsItems(vIn, vMin)
    /\ vDone' = TRUE
    /\ UNCHANGED <<pc, req, failFirst, attempt, calls, sleeps, parsed, news_items, idx,
                   pending, created, createCalls, exc, status, store, vIn, vMin, others>>

----------------------------------------------------------------------------
(* Initial states *)

Fresh ==
    /\ attempt = [p \in Procs |-> 0]
    /\ calls = [p \in Procs |-> <<>>]
    /\ sleeps = [p \in Procs |-> <<>>]
    /\ parsed = [p \in Procs |-> <<>>]
    /\ news_items = [p \in Procs |-> <<>>]
    /\ idx = [p \in Procs |-> 0]
    /\ pending = [p \in Procs |-> <<>>]
    /\ created = [p \in Procs |-> <<>>]
    /\ createCalls = [p \in Procs |-> <<>>]
    /\ exc = [p \in Procs |-> "none"]
    /\ status = [p \in Procs |-> 0]

NoValidateCall == vIn = <<>> /\ vMin = 0 /\ vOut = <<>> /\ vDone = TRUE

NoUnitCall == unit = [fn |-> "none", done |-> TRUE]

NoOperations == ops = <<>> /\ uops = <<>> /\ users = <<>>

Requests == [user_id : Users, count : 1..MaxCount, categories_valid : BOOLEAN]

(* What an earlier request of user u1 left in the collection *)
EarlierStore == InsertOne(<<>>, ConvertNews(CandidateOf(PieceAlpha), "u1")).collection

(* One request; the collection is empty or holds an earlier item *)
Init ==
    /\ pc = [p \in Procs |-> IF p = 1 THEN "idle" ELSE "off"]
    /\ req \in {f \in [Procs -> Requests] :
                  /\ f[1].user_id = "u1"
                  /\ f[2] = [user_id |-> "u2", count |-> 1, categories_valid |-> TRUE]}
    /\ failFirst \in {f \in [Procs -> 0..max_attempts] : f[2] = 0}
    /\ store \in {<<>>, EarlierStore}
    /\ Fresh
    /\ NoValidateCall
    /\ NoUnitCall
    /\ NoOperations

Attempt(p) == AttemptWith(p, Completions, ProviderErrors)

Next ==
    \E p \in Procs :
        \/ Start(p)
        \/ Attempt(p)
        \/ Backoff(p)
        \/ CheckDuplicate(p)
        \/ Create(p)
        \/ CreateFails(p)
        \/ Respond(p)

Spec == Init /\ [][Next]_vars


(* Two requests, the provider up, the collection empty *)
PairCompletions == {<<PieceClick>>} \cup [1..MaxSegs -> {PieceAlpha, PieceBeta}]

InitPair ==
    /\ pc = [p \in Procs |-> "idle"]
    /\ req \in {f \in [Procs -> Requests] :
                  /\ f[1].user_id = "u1"
                  /\ \A p \in Procs : f[p].categories_valid}
    /\ failFirst = [p \in Procs |-> 0]
    /\ store = <<>>
    /\ Fresh
    /\ NoValidateCall
    /\ NoUnitCall
    /\ NoOperations

AttemptPair(p) == AttemptWith(p, PairCompletions, {"HTTPStatusError"})

StepPair(p) ==
    \/ Start(p)
    \/ AttemptPair(p)
    \/ Backoff(p)
    \/ CheckDuplicate(p)
    \/ Create(p)
    \/ CreateFails(p)
    \/ Respond(p)

(* The two requests run concurrently, interleaved at their await points *)
NextConc == \E p \in Procs : StepPair(p)

SpecConc == InitPair /\ [][NextConc]_vars

(* An attempt with a provider that answers, raises or times out *)
AttemptLive(p) == AttemptWith(p, PairCompletions, ProviderErrors)

(* The event loop resumes a coroutine whose await has completed: the       *)
(* provider call ends within its 30 s timeout and asyncio.sleep ends.      *)
Fairness == \A p \in Procs : WF_vars(AttemptLive(p)) /\ WF_vars(Backoff(p))

(* generate_news alone: the request is taken and the attempt loop runs *)
NextLive == \E p \in Procs : Start(p) \/ AttemptLive(p) \/ Backoff(p)

SpecLive == Init /\ [][NextLive]_vars /\ Fairness

(* One request after the other *)
NextSeq == \E p \in Procs : (\A q \in Procs : q < p => pc[q] = "done") /\ StepPair(p)

SpecSeq == InitPair /\ [][NextSeq]_vars

(* A direct call of the validator on any list of candidates *)
VCandidates ==
    {[title |-> Str(<<"title">>, 40, tw, tp, FALSE),
      summary |-> Str(<<"summary">>, 80, sw, sp, FALSE),
      contentChars |-> 200, category |-> "research", source |-> PerplexitySource,
      link |-> <<"link">>, relevance_score |-> r] :
        tw \in {2, 3}, sw \in {9, 10}, tp \in BOOLEAN, sp \in BOOLEAN, r \in {7, 8}}

InitValidate ==
    /\ pc = [p \in Procs |-> "off"]
    /\ req = [p \in Procs |-> [user_id |-> "u1", count |-> 1, categories_valid |-> TRUE]]
    /\ failFirst = [p \in Procs |-> 0]
    /\ store = <<>>
    /\ Fresh
    /\ vIn \in SeqsUpTo(VCandidates, MaxItems)
    /\ vMin \in {7, 8}
    /\ vOut = <<>>
    /\ vDone = FALSE
    /\ NoUnitCall
    /\ NoOperations

NextValidate == ValidateCall

SpecValidate == InitValidate /\ [][NextValidate]_vars

----------------------------------------------------------------------------
(* Direct calls of single functions.  The pipeline is not running.          *)

PipelineOff ==
    /\ pc = [p \in Procs |-> "off"]
    /\ req = [p \in Procs |-> [user_id |-> "u1", count |-> 1, categories_valid |-> TRUE]]
    /\ failFirst = [p \in Procs |-> 0]
    /\ Fresh
    /\ NoValidateCall

(* Response text as a sequence of tokens.  MARKER is the literal            *)
(* "NEWS ITEM:", marker the same words in another letter case, blank a run  *)
(* of two newlines, nl one newline, num an enumeration mark such as "1.",   *)
(* text a run of other characters without any of these.                     *)
Tok(k, c) == [kind |-> k, chars |-> c]

Tokens == {Tok("MARKER", 10), Tok("marker", 10), Tok("blank", 2), Tok("nl", 1),
           Tok("num", 2), Tok("text", 20), Tok("text", 60)}

MaxToks == 4

IsSpace(t) == t.kind \in {"blank", "nl"}

(* A run of newlines is one token: no two white-space tokens are adjacent *)
Texts ==
    {s \in SeqsUpTo(Tokens, MaxToks) :
        \A i \in 1..(Len(s) - 1) : ~(IsSpace(s[i]) /\ IsSpace(s[i + 1]))}

(* str.strip() *)
RECURSIVE Strip(_)
Strip(s) ==
    IF s = <<>> THEN s
    ELSE IF IsSpace(s[1]) THEN Strip(Tail(s))
    ELSE IF IsSpace(s[Len(s)]) THEN Strip(SubSeq(s, 1, Len(s) - 1))
    ELSE s

(* re.split: the pieces of s between the tokens the separator matches *)
RECURSIVE ReSplit(_, _, _, _)
ReSplit(s, i, cur, seps) ==
    IF i > Len(s) THEN <<cur>>
    ELSE IF s[i].kind \in seps THEN <<cur>> \o ReSplit(s, i + 1, <<>>, seps)
    ELSE ReSplit(s, i + 1, Append(cur, s[i]), seps)

(* [seg.strip() for seg in segments if seg.strip()] *)
Stripped(pieces) ==
    LET all == [i \in 1..Len(pieces) |-> Strip(pieces[i])]
    IN  SelectSeq(all, LAMBDA seg : seg # <<>>)

(* Line 309: "NEWS ITEM:" in ai_content, a case-sensitive test *)
HasMarker(ai_content) == \E i \in 1..Len(ai_content) : ai_content[i].kind = "MARKER"

(* Line 310: r'NEWS ITEM:\s*' with re.IGNORECASE *)
MarkerSep == {"MARKER", "marker"}

(* Line 314: r'\n\n+|\d+\.\s*' *)
FallbackSep == {"blank", "num"}

(* Lines 309-315 *)
SplitSegments(ai_content) ==
    IF HasMarker(ai_content)
    THEN Stripped(ReSplit(ai_content, 1, <<>>, MarkerSep))
    ELSE Stripped(ReSplit(ai_content, 1, <<>>, FallbackSep))

(* Lines 309-317: the segments and the ones the loop uses *)
SplitCall ==
    /\ unit.fn = "split" /\ ~unit.done
    /\ unit' = [unit EXCEPT !.done = TRUE,
                            !.out = [segments |-> SplitSegments(unit.arg),
                                     used |-> Take(SplitSegments(unit.arg), unit.count)]]
    /\ UNCHANGED <<pc, req, failFirst, attempt, calls, sleeps, parsed, news_items, idx,
                   pending, created, createCalls, exc, status, store,
                   vIn, vMin, vOut, vDone, ops, uops, users>>

SplitCalls == [fn : {"split"}, arg : Texts, count : 1..MaxCount, out : {<<>>},
               done : {FALSE}]

(* A title as a sequence of words.  A word is a blocklisted phrase in some  *)
(* letter case, another word, or white space.                               *)
Word(p, c, n) == [phrase |-> p, casing |-> c, chars |-> n]

(* news_schemas.py line 80, as written in the source *)
clickbait_patterns ==
    {Word("You Won't Believe", "title", 17), Word("SHOCKING", "upper", 8),
     Word("BREAKING", "upper", 8)}

Casings == {"upper", "lower", "title"}

Words ==
    {Word(w.phrase, c, w.chars) : w \in clickbait_patterns, c \in Casings}
        \cup {Word("new model", c, 9) : c \in Casings}
        \cup {Word(" ", "none", 1)}

MaxWords == 2

Titles == SeqsUpTo(Words, MaxWords)

(* str.upper() *)
Upper(w) == IF w.casing = "none" THEN w ELSE [w EXCEPT !.casing = "upper"]

HasPatternCaseSensitive(v, pattern) == \E i \in 1..Len(v) : v[i] = pattern

(* Line 82: pattern.upper() in v.upper() *)
HasPattern(v, pattern) == \E i \in 1..Len(v) : Upper(v[i]) = Upper(pattern)

(* str.strip() of a title *)
RECURSIVE StripTitle(_)
StripTitle(v) ==
    IF v = <<>> THEN v
    ELSE IF v[1].phrase = " " THEN StripTitle(Tail(v))
    ELSE IF v[Len(v)].phrase = " " THEN StripTitle(SubSeq(v, 1, Len(v) - 1))
    ELSE v

(* AIGeneratedNews.validate_title: [raised, value] *)
validate_title(v) ==
    IF \E pattern \in clickbait_patterns : HasPattern(v, pattern)
    THEN [raised |-> TRUE, value |-> <<>>]
    ELSE [raised |-> FALSE,
          value |-> StripTitle(v)]

RECURSIVE SumChars(_)
SumChars(v) == IF v = <<>> THEN 0 ELSE v[1].chars + SumChars(Tail(v))

(* The title of a candidate as ConstructionFails reads it *)
TitleStr(v) ==
    Str(<<"title">>, SumChars(v), Len(v), FALSE, validate_title(v).raised)

(* AIGeneratedNews(title=..., summary=..., content=...): [raised, title] *)
Construct(title, summaryChars, contentChars) ==
    IF ConstructionFails(TitleStr(title),
                         Str(<<"summary">>, summaryChars, 10, FALSE, FALSE),
                         contentChars)
    THEN [raised |-> TRUE, title |-> <<>>]
    ELSE [raised |-> FALSE, title |-> validate_title(title).value]

ConstructCall ==
    /\ unit.fn = "construct" /\ ~unit.done
    /\ unit' = [unit EXCEPT !.done = TRUE,
                            !.out = Construct(unit.arg, unit.summaryChars,
                                              unit.contentChars)]
    /\ UNCHANGED <<pc, req, failFirst, attempt, calls, sleeps, parsed, news_items, idx,
                   pending, created, createCalls, exc, status, store,
                   vIn, vMin, vOut, vDone, ops, uops, users>>

ConstructCalls == [fn : {"construct"}, arg : Titles, summaryChars : {49, 50},
                   contentChars : {100}, out : {<<>>}, done : {FALSE}]

(* What the provider does with the one POST of PerplexityModel.request *)
StatusCodes == {200, 201, 301, 400, 401, 404, 428, 429, 430, 499, 500, 501, 503}

Bodies == {"", "rate limited", "oops"}

Responses ==
    [kind : {"response"}, status_code : StatusCodes, text : Bodies]
        \cup [kind : {"ConnectError", "ReadTimeout"}, status_code : {0}, text : {""}]

IsServerErrorStrict(status_code) == status_code > 500

(* Line 86: e.response.status_code >= 500 *)
IsServerError(status_code) == status_code >= 500

(* httpx Response.raise_for_status: raises unless the status is 2xx *)
IsSuccess(status_code) == status_code >= 200 /\ status_code <= 299

(* PerplexityModel.request, lines 73-94: the error raised, "none" when the  *)
(* parsed response is returned, and the number of POSTs made                *)
ModelRequest(response) ==
    LET raise(e, sc, body) == [error |-> e, status_code |-> sc, body |-> body,
                               retry_after |-> "None", posts |-> 1]
    IN  IF response.kind # "response"
        THEN raise("ConnectionError", 0, "")
        ELSE IF IsSuccess(response.status_code)
        THEN raise("none", 0, "")
        ELSE IF response.status_code = 429
        THEN raise("RateLimitError", 0, "")
        ELSE IF IsServerError(response.status_code)
        THEN raise("ServiceUnavailableError", 0, "")
        ELSE raise("ModelHTTPError", response.status_code, response.text)

RequestCall ==
    /\ unit.fn = "request" /\ ~unit.done
    /\ unit' = [unit EXCEPT !.done = TRUE, !.out = ModelRequest(unit.arg)]
    /\ UNCHANGED <<pc, req, failFirst, attempt, calls, sleeps, parsed, news_items, idx,
                   pending, created, createCalls, exc, status, store,
                   vIn, vMin, vOut, vDone, ops, uops, users>>

RequestCalls == [fn : {"request"}, arg : Responses, out : {<<>>}, done : {FALSE}]

InitUnit ==
    /\ PipelineOff
    /\ store = <<>>
    /\ NoOperations
    /\ \/ unit \in SplitCalls
       \/ unit \in ConstructCalls
       \/ unit \in RequestCalls

NextUnit == SplitCall \/ ConstructCall \/ RequestCall

SpecUnit == InitUnit /\ [][NextUnit]_vars

----------------------------------------------------------------------------
(* Direct calls of the parser and of its helpers *)

(* Lines 214-230: the response built from the parsed items *)
ResponseOf(items, min_relevance) ==
    LET validated_items == ValidateNewsItems(items, min_relevance)
    IN  [news_items |-> validated_items, total_generated |-> Len(validated_items)]

(* Lines 212-232: _parse_ai_response, then the validated response *)
ParseCall ==
    /\ unit.fn = "parse" /\ ~unit.done
    /\ LET r == ParseAIResponse(unit.arg, unit.count)
       IN  unit' = [unit EXCEPT !.done = TRUE,
                      !.out = [raised |-> r.raised, items |-> r.items,
                               response |-> IF r.raised THEN <<>>
                                            ELSE <<ResponseOf(r.items, unit.min_relevance)>>]]
    /\ UNCHANGED <<pc, req, failFirst, attempt, calls, sleeps, parsed, news_items, idx,
                   pending, created, createCalls, exc, status, store,
                   vIn, vMin, vOut, vDone, ops, uops, users>>

MinRelevances == {0, 7, 8, 10}

ParseCalls == [fn : {"parse"}, arg : Completions, count : 0..MaxCount,
               min_relevance : MinRelevances, out : {<<>>}, done : {FALSE}]

(* A segment whose first line has t characters and whose other lines,      *)
(* joined, have r characters                                                *)
SizedPiece(t, r, lines) ==
    Piece(IF lines = 1 THEN t ELSE t + 1 + r, lines,
          Str(<<"Sized title">>, t, 3, FALSE, FALSE),
          Str(<<"Sized rest">>, IF lines = 1 THEN 0 ELSE r, 12, FALSE, FALSE), NoKw)

TitleSizes == {0, 9, 10, 49, 50, 200, 201, 1500}

RestSizes == {0, 49, 50, 499, 500, 501, 1299, 1500, 3000}

SizedPieces ==
    {SizedPiece(t, r, lines) : t \in TitleSizes, r \in RestSizes, lines \in {1, 2}}

(* Lines 321-365 on one segment: the candidate's lengths and whether        *)
(* AIGeneratedNews(...) raises                                              *)
CandidateCall ==
    /\ unit.fn = "candidate" /\ ~unit.done
    /\ LET c == CandidateOf(unit.arg)
       IN  unit' = [unit EXCEPT !.done = TRUE,
                      !.out = [title |-> c.title.chars, summary |-> c.summary.chars,
                               content |-> c.contentChars,
                               raised |-> ConstructionFails(c.title, c.summary,
                                                            c.contentChars)]]
    /\ UNCHANGED <<pc, req, failFirst, attempt, calls, sleeps, parsed, news_items, idx,
                   pending, created, createCalls, exc, status, store,
                   vIn, vMin, vOut, vDone, ops, uops, users>>

CandidateCalls == [fn : {"candidate"}, arg : {s \in SizedPieces : s.chars >= 50},
                   out : {<<>>}, done : {FALSE}]

MaxKw == 2

(* _categorize_news on a text with the given keyword counts *)
CategorizeCall ==
    /\ unit.fn = "categorize" /\ ~unit.done
    /\ unit' = [unit EXCEPT !.done = TRUE, !.out = CategorizeNews(unit.arg)]
    /\ UNCHANGED <<pc, req, failFirst, attempt, calls, sleeps, parsed, news_items, idx,
                   pending, created, createCalls, exc, status, store,
                   vIn, vMin, vOut, vDone, ops, uops, users>>

CategorizeCalls(n) == [fn : {"categorize"}, arg : [AICategories -> 0..n],
                       out : {""}, done : {FALSE}]

(* _generate_image_url.  A title is read through the keyword groups it      *)
(* matches; an image is [kind, key].                                        *)
ImageGroups == <<"medical", "robot", "chip", "clinical", "research">>

Image(kind, key) == [kind |-> kind, key |-> key]

(* Lines 91-99 *)
category_image_map ==
    [c \in AICategories |->
        CASE c = "breakthrough" -> "artificial+intelligence+breakthrough+technology"
          [] c = "research" -> "ai+research+laboratory+science"
          [] c = "product_launch" -> "technology+product+launch+innovation"
          [] c = "industry_update" -> "business+technology+industry+corporate"
          [] c = "policy_regulation" -> "government+policy+regulation+law"
          [] c = "tutorial_guide" -> "education+tutorial+learning+guide"
          [] c = "opinion_analysis" -> "analysis+opinion+expert+discussion"]

(* Lines 101-119: search_terms is computed and not used by any branch *)
GenerateImageUrl(groups, category) ==
    LET search_terms == category_image_map[category]
        hit == {i \in 1..Len(ImageGroups) : ImageGroups[i] \in groups}
    IN  IF hit # {}
        THEN Image("keyword", ImageGroups[CHOOSE i \in hit : \A j \in hit : i <= j])
        ELSE Image("generic", "photo-1677442136019-21780ecad995")

ImageCall ==
    /\ unit.fn = "image" /\ ~unit.done
    /\ unit' = [unit EXCEPT !.done = TRUE,
                            !.out = GenerateImageUrl(unit.arg, unit.category)]
    /\ UNCHANGED <<pc, req, failFirst, attempt, calls, sleeps, parsed, news_items, idx,
                   pending, created, createCalls, exc, status, store,
                   vIn, vMin, vOut, vDone, ops, uops, users>>

ImageCalls == [fn : {"image"},
               arg : SUBSET {ImageGroups[i] : i \in 1..Len(ImageGroups)},
               category : AICategories, out : {<<>>}, done : {FALSE}]

InitParse ==
    /\ PipelineOff
    /\ store = <<>>
    /\ NoOperations
    /\ \/ unit \in ParseCalls
       \/ unit \in CandidateCalls
       \/ unit \in CategorizeCalls(MaxKw)
       \/ unit \in ImageCalls

NextParse == ParseCall \/ CandidateCall \/ CategorizeCall \/ ImageCall

SpecParse == InitParse /\ [][NextParse]_vars

----------------------------------------------------------------------------
(* One batch whose candidates may agree on the first 50 characters of their *)
(* titles.  Both twin titles are longer than 50 characters and start with   *)
(* the same 50.                                                             *)

PieceTwinA == Piece(160, 2, Str(<<"Omega platform brings a new generation of reasoning">>,
                                 60, 9, FALSE, FALSE),
                    Str(<<"The first">>, 99, 16, FALSE, FALSE), Kw("product_launch", 1))

PieceTwinB == Piece(180, 2, Str(<<"Omega platform brings a new generation of reasoning">>,
                                 72, 11, FALSE, FALSE),
                    Str(<<"The second">>, 107, 18, FALSE, FALSE), Kw("research", 1))

BatchCompletions ==
    {<<PieceClick>>} \cup SeqsUpTo({PieceTwinA, PieceTwinB, PieceAlpha}, MaxSegs)

InitBatch ==
    /\ pc = [p \in Procs |-> IF p = 1 THEN "idle" ELSE "off"]
    /\ req \in {f \in [Procs -> Requests] :
                  /\ f[1].user_id = "u1"
                  /\ f[2] = [user_id |-> "u2", count |-> 1, categories_valid |-> TRUE]}
    /\ failFirst = [p \in Procs |-> 0]
    /\ store \in {<<>>, EarlierStore}
    /\ Fresh
    /\ NoValidateCall
    /\ NoUnitCall
    /\ NoOperations

AttemptBatch(p) == AttemptWith(p, BatchCompletions, {"HTTPStatusError"})

NextBatch ==
    \E p \in Procs :
        \/ Start(p)
        \/ AttemptBatch(p)
        \/ Backoff(p)
        \/ CheckDuplicate(p)
        \/ Create(p)
        \/ CreateFails(p)
        \/ Respond(p)

SpecBatch == InitBatch /\ [][NextBatch]_vars

----------------------------------------------------------------------------
(* The news use cases on stored items: delete, toggle favorite, list.       *)
(* A stored document carries the fields these use cases read; created_at    *)
(* grows with the position in the collection.                               *)

Doc(id, user_id, is_public, st, is_favorite, category) ==
    [id |-> id, user_id |-> user_id, is_public |-> is_public, status |-> st,
     is_favorite |-> is_favorite, category |-> category,
     link |-> <<"https://example.com/", ToString(id)>>, created_at |-> id]

MaxStored == 2

DocShapes == [user_id : Users, is_public : BOOLEAN, status : {"pending", "read"},
              is_favorite : BOOLEAN]

(* The collections of up to n documents of one category *)
Collections(n) ==
    UNION {{[i \in 1..m |-> Doc(i, f[i].user_id, f[i].is_public, f[i].status,
                                f[i].is_favorite, "research")] :
              f \in [1..m -> DocShapes]} : m \in 0..n}

(* find_one({"_id": ...}): the document as a sequence of length 0 or 1 *)
FindOne(collection, id) == SelectSeq(collection, LAMBDA doc : doc.id = id)

DeleteOneOptimistic(collection, id) ==
    [collection |-> SelectSeq(collection, LAMBDA doc : doc.id # id),
     deleted_count |-> 1]

(* delete_one({"_id": ...}) *)
DeleteOne(collection, id) ==
    [collection |-> SelectSeq(collection, LAMBDA doc : doc.id # id),
     deleted_count |-> Len(FindOne(collection, id))]

(* update_one({"_id": ...}, {"$set": doc}) with created_at left out *)
UpdateOne(collection, item) ==
    [i \in 1..Len(collection) |->
        IF collection[i].id = item.id
        THEN [item EXCEPT !.created_at = collection[i].created_at]
        ELSE collection[i]]

(* NewsItem.can_be_accessed_by *)
can_be_accessed_by(item, user_id) == item.is_public \/ item.user_id = user_id

DeleteAllowedIfAccessible(news_item, user_id) == can_be_accessed_by(news_item, user_id)

(* delete_news_use_case.py line 42, negated: the requester owns the item *)
DeleteAllowed(news_item, user_id) == news_item.user_id = user_id

(* NewsItem.toggle_favorite *)
toggle_favorite(news_item) == [news_item EXCEPT !.is_favorite = ~@]

NewsOp(kind, news_id, user_id) ==
    [kind |-> kind, news_id |-> news_id, user_id |-> user_id, pc |-> "start",
     item |-> <<>>, exc |-> "none", result |-> <<>>, repo |-> <<>>]

(* get_by_id and the checks up to the next await, in delete (lines 36-43),  *)
(* in toggle favorite (lines 38-40) and in update status (lines 40-46)      *)
GetById(k) ==
    LET op == ops[k]
        found == FindOne(store, op.news_id)
        raise(e) == [op EXCEPT !.pc = "done", !.exc = e, !.item = found,
                               !.repo = Append(@, "get_by_id")]
    IN  /\ op.kind \in {"delete", "toggle", "status"}
        /\ op.pc = "start"
        /\ ops' = [ops EXCEPT ![k] =
                     IF found = <<>> THEN raise("NewsNotFoundException")
                     ELSE IF op.kind = "delete" /\ ~DeleteAllowed(found[1], op.user_id)
                     THEN raise("UnauthorizedNewsAccessException")
                     ELSE IF op.kind = "status" /\ found[1].user_id # op.user_id
                     THEN raise("UnauthorizedNewsAccessException")
                     ELSE [op EXCEPT !.pc = "fetched", !.item = found,
                                     !.repo = Append(@, "get_by_id")]]
        /\ UNCHANGED <<pc, req, failFirst, attempt, calls, sleeps, parsed, news_items,
                       idx, pending, created, createCalls, exc, status, store,
                       vIn, vMin, vOut, vDone, unit, uops, users>>

(* delete_news_use_case.py lines 46-51 *)
Delete(k) ==
    LET op == ops[k]
        r == DeleteOne(store, op.news_id)
    IN  /\ op.kind = "delete"
        /\ op.pc = "fetched"
        /\ store' = r.collection
        /\ ops' = [ops EXCEPT ![k] =
                     [op EXCEPT !.pc = "done", !.repo = Append(@, "delete"),
                                !.exc = IF r.deleted_count > 0 THEN "none"
                                        ELSE "NewsNotFoundException",
                                !.result = IF r.deleted_count > 0 THEN <<TRUE>> ELSE <<>>]]
        /\ UNCHANGED <<pc, req, failFirst, attempt, calls, sleeps, parsed, news_items,
                       idx, pending, created, createCalls, exc, status,
                       vIn, vMin, vOut, vDone, unit, uops, users>>

(* toggle_favorite_use_case.py lines 46-49 *)
ToggleFavorite(k) ==
    LET op == ops[k]
        news_item == toggle_favorite(op.item[1])
    IN  /\ op.kind = "toggle"
        /\ op.pc = "fetched"
        /\ store' = UpdateOne(store, news_item)
        /\ ops' = [ops EXCEPT ![k] =
                     [op EXCEPT !.pc = "done", !.repo = Append(@, "update"),
                                !.result = <<news_item>>]]
        /\ UNCHANGED <<pc, req, failFirst, attempt, calls, sleeps, parsed, news_items,
                       idx, pending, created, createCalls, exc, status,
                       vIn, vMin, vOut, vDone, unit, uops, users>>

(* One delete or toggle call on any collection; id 0 is stored nowhere *)
InitNews ==
    /\ PipelineOff
    /\ NoUnitCall
    /\ uops = <<>> /\ users = <<>>
    /\ store \in Collections(MaxStored)
    /\ \E kind \in {"delete", "toggle"}, news_id \in 0..MaxStored, user_id \in Users :
         ops = <<NewsOp(kind, news_id, user_id)>>

NextNews == \E k \in DOMAIN ops : GetById(k) \/ Delete(k) \/ ToggleFavorite(k)

SpecNews == InitNews /\ [][NextNews]_vars

(* NewsStatus *)
NewsStatus == {"pending", "reading", "read"}

(* NewsItem.update_status *)
update_status(news_item, st) == [news_item EXCEPT !.status = st]

(* An UpdateNewsStatusUseCase.execute call *)
StatusOp(news_id, st, user_id) ==
    [kind |-> "status", news_id |-> news_id, user_id |-> user_id, pc |-> "start",
     item |-> <<>>, exc |-> "none", result |-> <<>>, repo |-> <<>>, status |-> st]

(* update_news_status_use_case.py lines 49-52 *)
UpdateStatus(k) ==
    LET op == ops[k]
        news_item == update_status(op.item[1], op.status)
    IN  /\ op.kind = "status"
        /\ op.pc = "fetched"
        /\ store' = UpdateOne(store, news_item)
        /\ ops' = [ops EXCEPT ![k] =
                     [op EXCEPT !.pc = "done", !.repo = Append(@, "update"),
                                !.result = <<news_item>>]]
        /\ UNCHANGED <<pc, req, failFirst, attempt, calls, sleeps, parsed, news_items,
                       idx, pending, created, createCalls, exc, status,
                       vIn, vMin, vOut, vDone, unit, uops, users>>

(* The calls one client can make on item 1 *)
NewsOps ==
    {NewsOp(kind, 1, user_id) : kind \in {"delete", "toggle"}, user_id \in Users}
        \cup {StatusOp(1, st, user_id) : st \in NewsStatus, user_id \in Users}

(* Two calls in flight on the one stored item; the event loop interleaves   *)
(* them at every await                                                      *)
InitNewsConc ==
    /\ PipelineOff
    /\ NoUnitCall
    /\ uops = <<>> /\ users = <<>>
    /\ store \in {c \in Collections(1) : Len(c) = 1}
    /\ \E a \in NewsOps, b \in NewsOps : ops = <<a, b>>

NextNewsConc ==
    \E k \in DOMAIN ops : GetById(k) \/ Delete(k) \/ ToggleFavorite(k) \/ UpdateStatus(k)

SpecNewsConc == InitNewsConc /\ [][NextNewsConc]_vars

(* GetUserNewsUseCase.  A filter that is not given is "None". *)

ListCategories == {"research", "product"}

ListShapes == [user_id : Users, is_public : BOOLEAN, status : {"pending", "read"},
               is_favorite : BOOLEAN, category : ListCategories]

ListCollections(n) ==
    UNION {{[i \in 1..m |-> Doc(i, f[i].user_id, f[i].is_public, f[i].status,
                                f[i].is_favorite, f[i].category)] :
              f \in [1..m -> ListShapes]} : m \in 0..n}

BoolFilter(b) == IF b THEN "True" ELSE "False"

(* cursor.sort("created_at", DESCENDING) and list.sort(..., reverse=True),  *)
(* on documents with distinct created_at                                    *)
SortByCreatedDesc(docs) ==
    [i \in 1..Len(docs) |->
        docs[CHOOSE j \in 1..Len(docs) :
               Cardinality({l \in 1..Len(docs) :
                              docs[l].created_at > docs[j].created_at}) = i - 1]]

(* .skip(offset).limit(limit) *)
SkipLimit(docs, offset, limit) == SubSeq(docs, offset + 1, Min(Len(docs), offset + limit))

(* MongoDBNewsRepository.get_by_user_id, without the date filters *)
get_by_user_id(collection, user_id, st, category, is_favorite, limit, offset) ==
    SkipLimit(SortByCreatedDesc(SelectSeq(collection, LAMBDA doc :
                  /\ doc.user_id = user_id
                  /\ st # "None" => doc.status = st
                  /\ category # "None" => doc.category = category
                  /\ is_favorite # "None" => BoolFilter(doc.is_favorite) = is_favorite)),
              offset, limit)

(* MongoDBNewsRepository.get_public_news, without the date filters *)
get_public_news(collection, category, limit, offset) ==
    SkipLimit(SortByCreatedDesc(SelectSeq(collection, LAMBDA doc :
                  /\ doc.is_public
                  /\ category # "None" => doc.category = category)),
              offset, limit)

ListOp(user_id, st, category, is_favorite, limit, offset) ==
    [kind |-> "list", user_id |-> user_id, status |-> st, category |-> category,
     is_favorite |-> is_favorite, limit |-> limit, offset |-> offset, pc |-> "start",
     user_news |-> <<>>, result |-> <<>>, repo |-> <<>>]

(* get_user_news_use_case.py lines 48-57 and, for is_favorite True, 80-82 *)
ListUserNews(k) ==
    LET op == ops[k]
        user_news == get_by_user_id(store, op.user_id, op.status, op.category,
                                    op.is_favorite, op.limit, op.offset)
    IN  /\ op.kind = "list"
        /\ op.pc = "start"
        /\ ops' = [ops EXCEPT ![k] =
                     IF op.is_favorite # "True"
                     THEN [op EXCEPT !.pc = "public", !.user_news = user_news,
                                     !.repo = Append(@, "get_by_user_id")]
                     ELSE [op EXCEPT !.pc = "done", !.user_news = user_news,
                                     !.result = user_news,
                                     !.repo = Append(@, "get_by_user_id")]]
        /\ UNCHANGED <<pc, req, failFirst, attempt, calls, sleeps, parsed, news_items,
                       idx, pending, created, createCalls, exc, status, store,
                       vIn, vMin, vOut, vDone, unit, uops, users>>

(* get_user_news_use_case.py lines 60-79 *)
ListPublicNews(k) ==
    LET op == ops[k]
        public_news == get_public_news(store, op.category, op.limit, op.offset)
        user_news_links == {op.user_news[i].link : i \in 1..Len(op.user_news)}
        filtered_public == SelectSeq(public_news, LAMBDA news : news.link \notin user_news_links)
        all_news == SortByCreatedDesc(op.user_news \o filtered_public)
    IN  /\ op.kind = "list"
        /\ op.pc = "public"
        /\ ops' = [ops EXCEPT ![k] =
                     [op EXCEPT !.pc = "done", !.result = Take(all_news, op.limit),
                                !.repo = Append(@, "get_public_news")]]
        /\ UNCHANGED <<pc, req, failFirst, attempt, calls, sleeps, parsed, news_items,
                       idx, pending, created, createCalls, exc, status, store,
                       vIn, vMin, vOut, vDone, unit, uops, users>>

(* One list call of user u1 on any collection *)
InitList ==
    /\ PipelineOff
    /\ NoUnitCall
    /\ uops = <<>> /\ users = <<>>
    /\ store \in ListCollections(MaxStored)
    /\ \E st \in {"None", "read"}, category \in {"None", "research"},
          is_favorite \in {"None", "True", "False"}, limit \in 1..2, offset \in 0..1 :
         ops = <<ListOp("u1", st, category, is_favorite, limit, offset)>>

NextList == \E k \in DOMAIN ops : ListUserNews(k) \/ ListPublicNews(k)

SpecList == InitList /\ [][NextList]_vars

(* CreateUserUseCase on the users collection *)

Emails == {"ann@x.io", "bob@x.io", "", " ", "ann.x.io"}

Usernames == {"ann", "bob", "", " "}

(* not s or not s.strip() *)
Blank(s) == s \in {"", " "}

(* "@" in email *)
HasAt(email) == email \in {"ann@x.io", "bob@x.io"}

(* User.__post_init__ raises no ValueError *)
UserValid(email, username) == ~Blank(email) /\ ~Blank(username) /\ HasAt(email)

UserDoc(id, email, username) == [id |-> id, email |-> email, username |-> username]

UserCollections(n) ==
    UNION {{[i \in 1..m |-> UserDoc(i, f[i].email, f[i].username)] :
              f \in [1..m -> [email : {e \in Emails : HasAt(e)},
                              username : {u \in Usernames : ~Blank(u)}]]} :
           m \in 0..n}

find_nothing(collection, email) == <<>>

(* MongoDBUserRepository.find_by_email: a sequence of length 0 or 1 *)
find_by_email(collection, email) ==
    Take(SelectSeq(collection, LAMBDA doc : doc.email = email), 1)

(* MongoDBUserRepository.find_by_username *)
find_by_username(collection, username) ==
    Take(SelectSeq(collection, LAMBDA doc : doc.username = username), 1)

UserOp(email, username) ==
    [email |-> email, username |-> username, pc |-> "start", exc |-> "none",
     result |-> <<>>, repo |-> <<>>]

(* user_use_cases.py lines 56-64: the entity is built, then the email is    *)
(* looked up                                                                *)
CheckEmail(k) ==
    LET op == uops[k]
    IN  /\ op.pc = "start"
        /\ uops' = [uops EXCEPT ![k] =
                      IF ~UserValid(op.email, op.username)
                      THEN [op EXCEPT !.pc = "done", !.exc = "InvalidUserDataError"]
                      ELSE IF find_by_email(users, op.email) # <<>>
                      THEN [op EXCEPT !.pc = "done", !.exc = "UserAlreadyExistsError",
                                      !.repo = Append(@, "find_by_email")]
                      ELSE [op EXCEPT !.pc = "email_free",
                                      !.repo = Append(@, "find_by_email")]]
        /\ UNCHANGED <<pc, req, failFirst, attempt, calls, sleeps, parsed, news_items,
                       idx, pending, created, createCalls, exc, status, store,
                       vIn, vMin, vOut, vDone, unit, ops, users>>

(* Lines 66-68 *)
CheckUsername(k) ==
    LET op == uops[k]
    IN  /\ op.pc = "email_free"
        /\ uops' = [uops EXCEPT ![k] =
                      IF find_by_username(users, op.username) # <<>>
                      THEN [op EXCEPT !.pc = "done", !.exc = "UserAlreadyExistsError",
                                      !.repo = Append(@, "find_by_username")]
                      ELSE [op EXCEPT !.pc = "username_free",
                                      !.repo = Append(@, "find_by_username")]]
        /\ UNCHANGED <<pc, req, failFirst, attempt, calls, sleeps, parsed, news_items,
                       idx, pending, created, createCalls, exc, status, store,
                       vIn, vMin, vOut, vDone, unit, ops, users>>

(* Line 70 and MongoDBUserRepository.create *)
CreateUser(k) ==
    LET op == uops[k]
        user == UserDoc(Len(users) + 1, op.email, op.username)
    IN  /\ op.pc = "username_free"
        /\ users' = Append(users, user)
        /\ uops' = [uops EXCEPT ![k] =
                      [op EXCEPT !.pc = "done", !.result = <<user>>,
                                 !.repo = Append(@, "create")]]
        /\ UNCHANGED <<pc, req, failFirst, attempt, calls, sleeps, parsed, news_items,
                       idx, pending, created, createCalls, exc, status, store,
                       vIn, vMin, vOut, vDone, unit, ops>>

(* One CreateUserUseCase.execute call on any collection of users *)
InitUsers ==
    /\ PipelineOff
    /\ NoUnitCall
    /\ store = <<>> /\ ops = <<>>
    /\ users \in UserCollections(MaxStored)
    /\ \E email \in Emails, username \in Usernames : uops = <<UserOp(email, username)>>

NextUsers == \E k \in DOMAIN uops : CheckEmail(k) \/ CheckUsername(k) \/ CreateUser(k)

SpecUsers == InitUsers /\ [][NextUsers]_vars

(* The stored users share no email and no username *)
UsersDistinct(collection) ==
    \A i, j \in 1..Len(collection) :
        i # j => /\ collection[i].email # collection[j].email
                 /\ collection[i].username # collection[j].username

(* Two CreateUserUseCase.execute calls in flight on a collection that holds *)
(* at most one user; the event loop interleaves them at every await         *)
InitUsersConc ==
    /\ PipelineOff
    /\ NoUnitCall
    /\ store = <<>> /\ ops = <<>>
    /\ users \in UserCollections(1)
    /\ \E e1 \in Emails, e2 \in Emails, u1 \in Usernames, u2 \in Usernames :
         uops = <<UserOp(e1, u1), UserOp(e2, u2)>>

NextUsersConc == \E k \in DOMAIN uops : CheckEmail(k) \/ CheckUsername(k) \/ CreateUser(k)

SpecUsersConc == InitUsersConc /\ [][NextUsersConc]_vars

----------------------------------------------------------------------------
(* Properties *)

Returned(p) == pc[p] \in {"persist", "create"} \/ (pc[p] = "done" /\ exc[p] = "none")

Failed(p) == pc[p] = "done" /\ exc[p] = "AINewsGenerationException"

IsPrefix(s, t) == Len(s) <= Len(t) /\ \A i \in 1..Len(s) : s[i] = t[i]

(* C1: generate_news runs at most 3 attempts; an attempt that raises while  *)
(* attempts remain is followed by a sleep of 2^attempt_index seconds (1 s   *)
(* after attempt 0, 2 s after attempt 1) and a retry; when the third        *)
(* attempt raises the call fails with AINewsGenerationException and there   *)
(* is no further sleep or attempt.                                          *)
C1_RetryBackoff ==
    \A p \in Procs :
        /\ Len(calls[p]) <= 3
        /\ attempt[p] <= 2
        /\ IsPrefix(sleeps[p], <<1, 2>>)
        /\ Len(sleeps[p]) = attempt[p]
        /\ pc[p] = "attempt" => Len(calls[p]) = attempt[p]
        /\ pc[p] = "sleep" => Len(calls[p]) = attempt[p] + 1 /\ attempt[p] < 2
        /\ Returned(p) => Len(calls[p]) = attempt[p] + 1
        /\ Failed(p) => Len(calls[p]) = 3 /\ sleeps[p] = <<1, 2>> /\ status[p] # 0

C1_Witness == Failed(1) /\ sleeps[1] = <<1, 2>> /\ Len(calls[1]) = 3

(* C2: when the provider call fails with a connection failure on the 1st    *)
(* and 2nd attempts and succeeds on the 3rd, generate_news makes three      *)
(* provider calls, backs off 1 s and then 2 s, and then succeeds.           *)
C2_RetriesAfterConnectionFailure ==
    \A p \in Procs :
        (failFirst[p] = 2 /\ (Returned(p) \/ Failed(p)))
            => /\ Len(calls[p]) = 3
               /\ sleeps[p] = <<1, 2>>
               /\ Returned(p)

(* C3: when the provider call fails on every one of the 3 attempts,         *)
(* generate_news raises AINewsGenerationException and execute makes no call *)
(* to the news-creation use case.                                           *)
C3_AllAttemptsFail ==
    \A p \in Procs :
        failFirst[p] = 3
            => /\ createCalls[p] = <<>>
               /\ ~Returned(p)
               /\ pc[p] = "done" => exc[p] = "AINewsGenerationException"

(* C4: for a request with count = N >= 1 the list generate_news returns     *)
(* after validation has between 0 and N candidates, whatever the provider   *)
(* answered and however many segments the answer had.                       *)
C4_AtMostCount ==
    \A p \in Procs :
        /\ Len(parsed[p]) <= req[p].count
        /\ Len(news_items[p]) <= req[p].count

C4_Witness ==
    /\ Returned(1)
    /\ calls[1][Len(calls[1])].pieces > req[1].count
    /\ Len(news_items[1]) = req[1].count

(* C5: in execute a failure of the news-creation use case for one candidate *)
(* is caught and the candidate skipped: every candidate is attempted, in    *)
(* order, execute does not raise, and the returned list is exactly the      *)
(* persisted items in candidate order.                                      *)
StoredCalls(p) == SelectSeq(createCalls[p], LAMBDA c : c.result = "stored")

C5_SkipAndContinue ==
    \A p \in Procs :
        (pc[p] = "done" /\ exc[p] \notin {"ValidationError", "AINewsGenerationException"})
            => /\ exc[p] = "none" /\ status[p] = 200
               /\ Len(createCalls[p]) = Len(news_items[p])
               /\ \A i \in 1..Len(createCalls[p]) :
                      /\ createCalls[p][i].ai_news = news_items[p][i]
                      /\ createCalls[p][i].result # "running"
               /\ Len(created[p]) = Len(StoredCalls(p))
               /\ \A k \in 1..Len(created[p]) :
                      /\ created[p][k].link = StoredCalls(p)[k].ai_news.link
                      /\ created[p][k].title = StoredCalls(p)[k].ai_news.title
                      /\ \E i \in 1..Len(store) : store[i] = created[p][k]

C5_Witness ==
    /\ pc[1] = "done"
    /\ Len(createCalls[1]) = 2
    /\ createCalls[1][1].result \in {"DuplicateNewsException", "StorageError"}
    /\ createCalls[1][2].result = "stored"
    /\ Len(created[1]) = 1

SameKey(a, b) == a.link = b.link /\ a.user_id = b.user_id

StoredFor(link, user_id) ==
    {i \in 1..Len(store) : store[i].link = link /\ store[i].user_id = user_id}

(* C6: persisting the same candidate twice for the same user, one call      *)
(* after the other, leaves exactly one stored item for that (link, user):   *)
(* the first call stores it, the second raises DuplicateNewsException,      *)
(* which is skipped, and the second call returns without the item and       *)
(* without raising.                                                         *)
C6_SecondCallSkips ==
    \A i \in 1..Len(createCalls[1]), j \in 1..Len(createCalls[2]) :
        (/\ req[1].user_id = req[2].user_id
         /\ createCalls[1][i].ai_news.link = createCalls[2][j].ai_news.link
         /\ createCalls[1][i].result = "stored")
            => /\ createCalls[2][j].result = "DuplicateNewsException"
               /\ Cardinality(StoredFor(createCalls[2][j].ai_news.link,
                                        req[2].user_id)) = 1
               /\ \A k \in 1..Len(created[2]) :
                      created[2][k].link # createCalls[2][j].ai_news.link
               /\ exc[2] = "none"
               /\ pc[2] = "done" => status[2] = 200

C6_Witness ==
    /\ pc[2] = "done" /\ status[2] = 200
    /\ req[1].user_id = req[2].user_id
    /\ Len(createCalls[1]) = 1 /\ createCalls[1][1].result = "stored"
    /\ Len(createCalls[2]) = 1 /\ createCalls[2][1].result = "DuplicateNewsException"
    /\ createCalls[1][1].ai_news = createCalls[2][1].ai_news
    /\ created[2] = <<>>

(* C7: when two execute calls run concurrently for the same user with       *)
(* candidates of the same link, in every interleaving at most one item with *)
(* that (link, user_id) is stored: the unique index rejects the loser's     *)
(* create, the failure is caught and skipped, and neither call raises.      *)
C7_UniqueUnderRace ==
    /\ \A i, j \in 1..Len(store) : SameKey(store[i], store[j]) => i = j
    /\ \A p \in Procs :
        /\ createCalls[p] # <<>> => exc[p] = "none" /\ (pc[p] = "done" => status[p] = 200)
        /\ \A i \in 1..Len(createCalls[p]) :
              createCalls[p][i].result = "DuplicateKeyError"
                  => /\ Cardinality(StoredFor(createCalls[p][i].ai_news.link,
                                                req[p].user_id)) = 1
                       /\ idx[p] > i
                       /\ Len(created[p]) = Len(StoredCalls(p))

C7_Witness ==
    /\ pc[1] = "done" /\ pc[2] = "done"
    /\ req[1].user_id = req[2].user_id
    /\ \E i \in 1..Len(createCalls[1]), j \in 1..Len(createCalls[2]) :
          /\ createCalls[1][i].ai_news.link = createCalls[2][j].ai_news.link
          /\ createCalls[1][i].result = "DuplicateKeyError"
          /\ createCalls[2][j].result = "stored"

(* C8: at the generate_ai_news boundary an AINewsGenerationException of the *)
(* use case is answered with 503, any other exception with 500, and no      *)
(* exception leaves the handler unmapped.                                   *)
C8_StatusMapping ==
    \A p \in Procs :
        /\ pc[p] = "done" => status[p] \in {200, 500, 503}
        /\ (pc[p] = "done" /\ exc[p] = "AINewsGenerationException") => status[p] = 503
        /\ (pc[p] = "done" /\ exc[p] \notin {"none", "AINewsGenerationException"})
              => status[p] = 500
        /\ status[p] = 200 => exc[p] = "none"

C8_Witness == pc[1] = "done" /\ exc[1] = "AINewsGenerationException" /\ status[1] = 503

(* C9: the stored category is the image of the candidate's category under   *)
(* breakthrough->research, research->research, product_launch->product,     *)
(* industry_update->company, policy_regulation->general,                    *)
(* tutorial_guide->tutorial, opinion_analysis->opinion, other->general.     *)
C9_Table(c) ==
    CASE c = "breakthrough" -> "research"
      [] c = "research" -> "research"
      [] c = "product_launch" -> "product"
      [] c = "industry_update" -> "company"
      [] c = "policy_regulation" -> "general"
      [] c = "tutorial_guide" -> "tutorial"
      [] c = "opinion_analysis" -> "opinion"
      [] OTHER -> "general"

C9_CategoryImage ==
    \A p \in Procs :
        /\ \A i \in 1..Len(createCalls[p]) :
              createCalls[p][i].category = C9_Table(createCalls[p][i].ai_news.category)
        /\ \A k \in 1..Len(created[p]) :
              /\ k <= Len(StoredCalls(p))
              /\ created[p][k].category = C9_Table(StoredCalls(p)[k].ai_news.category)
              /\ \E i \in 1..Len(store) :
                    /\ store[i].id = created[p][k].id
                    /\ store[i].category = C9_Table(StoredCalls(p)[k].ai_news.category)

C9_Witness ==
    \E i \in 1..Len(createCalls[1]), k \in 1..Len(store) :
        /\ createCalls[1][i].ai_news.category = "policy_regulation"
        /\ createCalls[1][i].result = "stored"
        /\ store[k].link = createCalls[1][i].ai_news.link
        /\ store[k].category = "general"

(* C10: _validate_news_items is an order-preserving filter: its output is   *)
(* the subsequence of the input made of exactly the candidates with         *)
(* relevance_score >= min_relevance, a title of at least 3 words, a summary *)
(* of at least 10 words and no placeholder marker in title or summary; the  *)
(* survivors are unchanged.                                                 *)
C10_Accepts(c) ==
    /\ c.relevance_score >= vMin
    /\ c.title.words >= 3
    /\ c.summary.words >= 10
    /\ ~c.title.ph /\ ~c.summary.ph

C10_Kept == {i \in 1..Len(vIn) : C10_Accepts(vIn[i])}

C10_OrderPreservingFilter ==
    vDone =>
        /\ Len(vOut) = Cardinality(C10_Kept)
        /\ \A k \in 1..Len(vOut) :
              \E i \in C10_Kept :
                  /\ Cardinality({h \in C10_Kept : h <= i}) = k
                  /\ vOut[k] = vIn[i]

C10_Witness ==
    /\ vDone
    /\ Len(vIn) >= 2 /\ Len(vOut) = 1
    /\ vOut[1].relevance_score = vMin
    /\ vOut[1] = vIn[2]
    /\ vIn[1].relevance_score < vMin


(* C18: within an attempt, an exception raised by the provider call (a      *)
(* non-200 status, a transport failure, a timeout, a malformed body) is     *)
(* caught and replaced by the placeholder completion: such an attempt does  *)
(* not raise, it is the last one and generate_news returns what the         *)
(* placeholder text parses to; only an attempt whose provider call          *)
(* answered can raise, so a backoff or a failure follows an answered call.  *)
C18_ProviderErrorFallsBack ==
    \A p \in Procs :
        /\ \A i \in 1..Len(calls[p]) :
             /\ calls[p][i].error # "none" =>
                  /\ ~calls[p][i].raised
                  /\ i = Len(calls[p])
                  /\ Returned(p)
                  /\ parsed[p] = ParseAIResponse(FallbackCompletion(req[p].count),
                                                 req[p].count).items
             /\ calls[p][i].raised => calls[p][i].error = "none"
        /\ (pc[p] = "sleep" \/ Failed(p)) =>
             /\ calls[p] # <<>>
             /\ calls[p][Len(calls[p])].error = "none"
             /\ calls[p][Len(calls[p])].raised

C18_Witness ==
    /\ Len(calls[1]) = 2
    /\ calls[1][1].raised
    /\ calls[1][2].error = "ReadTimeout"
    /\ Returned(1)
    /\ parsed[1] # <<>>

C19_Terminal(p) == Returned(p) \/ Failed(p)

C19_Safety ==
    \A p \in Procs :
        /\ attempt[p] < max_attempts
        /\ Len(calls[p]) = attempt[p] + (IF pc[p] \in {"idle", "off", "attempt"} THEN 0 ELSE 1)
           \/ (pc[p] = "done" /\ calls[p] = <<>>)
        /\ C19_Terminal(p) => Len(calls[p]) \in 1..max_attempts
        /\ exc[p] # "AttributeError"
        /\ (pc[p] = "done" /\ calls[p] # <<>>) => C19_Terminal(p)

(* C19: every generate_news call ends as DONE (a response) or failed        *)
(* (AINewsGenerationException) after at most 3 attempts, with exactly one   *)
(* provider call per attempt started (1 to 3 in all), one at a time, and    *)
(* it never falls off the loop without a response.                          *)
C19_Terminates ==
    /\ []C19_Safety
    /\ \A p \in Procs : (pc[p] = "attempt") ~> C19_Terminal(p)

C19_Witness ==
    /\ Returned(1)
    /\ Len(calls[1]) = 3
    /\ attempt[1] = 2

(* C20: a failure to construct one candidate is not caught per candidate:   *)
(* the attempt raises exactly when one of the segments it uses fails        *)
(* construction, whatever was built before; nothing of a raising attempt    *)
(* is parsed, validated or stored, no returned candidate has a clickbait    *)
(* title, and after three such attempts generate_news fails with            *)
(* AINewsGenerationException and returns no candidate.                      *)
C20_ConstructionFailureFailsAttempt ==
    \A p \in Procs :
        /\ \A i \in 1..Len(calls[p]) :
             /\ calls[p][i].raised <=>
                  (calls[p][i].firstBad \in 1..req[p].count)
             /\ (calls[p][i].raised /\ i = Len(calls[p])) =>
                  (pc[p] \in {"sleep", "attempt"} \/ Failed(p))
             /\ (calls[p][i].raised /\ i < Len(calls[p])) =>
                  (Len(sleeps[p]) >= i /\ sleeps[p][i] = Pow2(i - 1))
        /\ (pc[p] = "sleep" \/ Failed(p)) =>
             parsed[p] = <<>> /\ news_items[p] = <<>> /\ createCalls[p] = <<>>
        /\ \A j \in 1..Len(parsed[p]) :
             ~ConstructionFails(parsed[p][j].title, parsed[p][j].summary,
                                parsed[p][j].contentChars)
        /\ Failed(p) =>
             /\ \A i \in 1..max_attempts : calls[p][i].raised
             /\ status[p] = 503

C20_Witness ==
    /\ Failed(1)
    /\ \E i \in 1..Len(calls[1]) : calls[1][i].built >= 1
    /\ store = <<>>


C11_Markers(text) == Cardinality({i \in 1..Len(text) : text[i].kind = "MARKER"})

(* C11: for response text with exactly k occurrences of the marker          *)
(* "NEWS ITEM:" (k >= 1) the segmentation yields exactly k trimmed          *)
(* segments, and the loop uses the first max_items of them at most.         *)
C11_MarkersGiveSegments ==
    (unit.fn = "split" /\ unit.done /\ C11_Markers(unit.arg) >= 1) =>
        /\ Len(unit.out.segments) = C11_Markers(unit.arg)
        /\ unit.out.used = Take(unit.out.segments, unit.count)
        /\ Len(unit.out.used) <= unit.count

C12_Blocklisted(w) == w.phrase \in {p.phrase : p \in clickbait_patterns}

(* C12: constructing an AIGeneratedNews whose title contains a blocklisted  *)
(* phrase in any letter case fails, and no constructed candidate has such   *)
(* a title: the phrase is not removed to make the title pass.               *)
C12_ClickbaitNeverConstructed ==
    (unit.fn = "construct" /\ unit.done) =>
        /\ (\E i \in 1..Len(unit.arg) : C12_Blocklisted(unit.arg[i])) => unit.out.raised
        /\ ~unit.out.raised =>
             /\ \A i \in 1..Len(unit.out.title) : ~C12_Blocklisted(unit.out.title[i])
             /\ unit.out.title = StripTitle(unit.arg)

C12_Witness ==
    /\ unit.fn = "construct" /\ unit.done
    /\ unit.arg = <<Word("SHOCKING", "lower", 8), Word("new model", "lower", 9)>>
    /\ unit.summaryChars = 50
    /\ unit.out.raised

C14_DeleteOps == {k \in DOMAIN ops : ops[k].kind = "delete"}

C14_State ==
    \A k \in C14_DeleteOps :
        LET op == ops[k]
            called == \E i \in 1..Len(op.repo) : op.repo[i] = "delete"
        IN  /\ called => (op.item # <<>> /\ op.item[1].user_id = op.user_id
                          /\ op.repo = <<"get_by_id", "delete">>)
            /\ (op.pc = "done" /\ op.item = <<>>) =>
                 (op.exc = "NewsNotFoundException" /\ ~called)
            /\ (op.pc = "done" /\ op.item # <<>> /\ op.item[1].user_id # op.user_id) =>
                 (op.exc = "UnauthorizedNewsAccessException" /\ ~called)

C14_Step ==
    \A k \in C14_DeleteOps :
        (ops'[k] # ops[k] /\ store' # store) =>
            /\ ops[k].item # <<>>
            /\ ops[k].item[1].user_id = ops[k].user_id
            /\ ops'[k].repo = <<"get_by_id", "delete">>

(* C14: DeleteNewsUseCase.execute calls repository delete only after        *)
(* get_by_id found the item and its user_id equals the requester; a missing *)
(* item raises NewsNotFoundException, an item of another user (public or    *)
(* not, any status, favorite or not) raises                                 *)
(* UnauthorizedNewsAccessException, and in both cases delete is not called  *)
(* and the call leaves the store as it was.                                 *)
C14_DeleteOnlyByOwner == []C14_State /\ [][C14_Step]_vars

C14_Witness ==
    /\ ops # <<>> /\ ops[1].kind = "delete" /\ ops[1].pc = "done"
    /\ ops[1].exc = "UnauthorizedNewsAccessException"
    /\ ops[1].item[1].is_public /\ ops[1].item[1].is_favorite
    /\ FindOne(store, ops[1].news_id) = ops[1].item

(* C16: ToggleFavoriteUseCase.execute raises                                *)
(* UnauthorizedNewsAccessException when the requester cannot access the     *)
(* item (a private item of another user) and leaves is_favorite unchanged.  *)
C16_ToggleNeedsAccess ==
    \A k \in DOMAIN ops :
        (/\ ops[k].kind = "toggle" /\ ops[k].pc = "done" /\ ops[k].item # <<>>
         /\ ~can_be_accessed_by(ops[k].item[1], ops[k].user_id)) =>
            /\ ops[k].exc = "UnauthorizedNewsAccessException"
            /\ \A i \in 1..Len(store) :
                 store[i].id = ops[k].news_id =>
                    store[i].is_favorite = ops[k].item[1].is_favorite

(* C17: every item GetUserNewsUseCase.execute returns matches every filter  *)
(* the caller supplied (status, category, is_favorite) and is owned by the  *)
(* user or public, and at most limit items are returned.                    *)
C17_ResultMatchesFilters ==
    \A k \in DOMAIN ops :
        (ops[k].kind = "list" /\ ops[k].pc = "done") =>
            /\ Len(ops[k].result) <= ops[k].limit
            /\ \A i \in 1..Len(ops[k].result) :
                 LET item == ops[k].result[i]
                 IN  /\ ops[k].status # "None" => item.status = ops[k].status
                     /\ ops[k].category # "None" => item.category = ops[k].category
                     /\ ops[k].is_favorite # "None" =>
                          BoolFilter(item.is_favorite) = ops[k].is_favorite
                     /\ item.user_id = ops[k].user_id \/ item.is_public

C15_EmailTaken(op) == \E i \in 1..Len(users) : users[i].email = op.email

C15_UsernameTaken(op) == \E i \in 1..Len(users) : users[i].username = op.username

C15_Invalid(op) == Blank(op.email) \/ Blank(op.username) \/ ~HasAt(op.email)

C15_Step ==
    \A k \in DOMAIN uops :
        LET op == uops[k]
            after == uops'[k]
        IN  after # op =>
              /\ IsPrefix(after.repo, <<"find_by_email", "find_by_username", "create">>)
              /\ Len(after.repo) <= Len(op.repo) + 1
              /\ (op.pc = "start" /\ C15_Invalid(op)) =>
                   (after.pc = "done" /\ after.exc = "InvalidUserDataError"
                    /\ after.repo = <<>>)
              /\ (op.pc = "start" /\ ~C15_Invalid(op)) =>
                   /\ after.repo = <<"find_by_email">>
                   /\ IF C15_EmailTaken(op)
                      THEN after.pc = "done" /\ after.exc = "UserAlreadyExistsError"
                      ELSE after.pc # "done" /\ after.exc = "none"
              /\ op.repo = <<"find_by_email">> =>
                   /\ after.repo = <<"find_by_email", "find_by_username">>
                   /\ IF C15_UsernameTaken(op)
                      THEN after.pc = "done" /\ after.exc = "UserAlreadyExistsError"
                      ELSE after.pc # "done" /\ after.exc = "none"
              /\ (users' # users \/ Len(after.repo) = 3) =>
                   /\ ~C15_Invalid(op) /\ ~C15_EmailTaken(op) /\ ~C15_UsernameTaken(op)
                   /\ op.repo = <<"find_by_email", "find_by_username">>
                   /\ users' = Append(users, after.result[1])
                   /\ after.result[1].email = op.email
                   /\ after.result[1].username = op.username
                   /\ after.exc = "none"

(* C15: CreateUserUseCase.execute validates the entity first (a failure is  *)
(* InvalidUserDataError with no repository call), then looks up the email   *)
(* (taken: UserAlreadyExistsError without looking up the username), then    *)
(* the username (taken: UserAlreadyExistsError), and calls repository       *)
(* create only when all three checks pass.                                  *)
C15_CreateUserOrder == [][C15_Step]_vars

C15_Witness ==
    /\ uops # <<>> /\ uops[1].pc = "done"
    /\ uops[1].exc = "UserAlreadyExistsError"
    /\ uops[1].repo = <<"find_by_email", "find_by_username">>

C21_Drafts(items) == Len(SelectSeq(items, LAMBDA item : item.source = PerplexitySource))

C21_LongSegments(text) == Len(SelectSeq(Segments(text), LAMBDA seg : seg.chars >= 50))

(* C21: segments shorter than 50 characters are discarded before the cap,   *)
(* so the parser produces min(max_items, number of trimmed segments of at   *)
(* least 50 characters) drafts and a short segment uses up no slot.         *)
C21_ShortSegmentsTakeNoSlot ==
    (unit.fn = "parse" /\ unit.done /\ ~unit.out.raised /\ FirstBad(unit.arg) = 0) =>
        C21_Drafts(unit.out.items) = Min(unit.count, C21_LongSegments(unit.arg))

(* C22: when no draft survives and at least one item was requested the      *)
(* parser returns exactly one fallback candidate, the fixed one with        *)
(* relevance_score 0.7; when a draft survives no fallback is added, even    *)
(* if fewer drafts than requested were produced.                            *)
C22_OneFallbackOrNone ==
    (unit.fn = "parse" /\ unit.done /\ ~unit.out.raised) =>
        IF C21_Drafts(unit.out.items) = 0
        THEN IF unit.count >= 1
             THEN /\ Len(unit.out.items) = 1
                  /\ unit.out.items[1].source = "AI Research News"
                  /\ unit.out.items[1].relevance_score = 7
                  /\ unit.out.items[1].title.head = <<"AI Research Update #", "1">>
                  /\ unit.out.items[1].category = "research"
             ELSE unit.out.items = <<>>
        ELSE /\ Len(unit.out.items) = C21_Drafts(unit.out.items)
             /\ Len(unit.out.items) <= unit.count

C22_Witness ==
    /\ unit.fn = "parse" /\ unit.done /\ ~unit.out.raised
    /\ unit.count = 2
    /\ Len(unit.out.items) = 1
    /\ unit.out.items[1].source = PerplexitySource

(* C23: for every segment of at least 50 characters the padding and         *)
(* truncation give a title of 10..200, a summary of 50..500 and a content   *)
(* of 100..2000 characters, so the construction of the candidate does not   *)
(* fail on a length bound, whatever the length of the segment.              *)
C23_LengthsWithinBounds ==
    (unit.fn = "candidate" /\ unit.done /\ unit.arg.chars >= 50) =>
        /\ unit.out.title >= 10 /\ unit.out.title <= 200
        /\ unit.out.summary >= 50 /\ unit.out.summary <= 500
        /\ unit.out.content >= 100 /\ unit.out.content <= 2000
        /\ ~unit.out.raised

C24_Max(kw) == CHOOSE m \in 0..(MaxKw + 1) :
                   /\ \A c \in AICategories : kw[c] <= m
                   /\ \E c \in AICategories : kw[c] = m

C24_Position(c) == CHOOSE i \in 1..Len(AINewsCategory) : AINewsCategory[i] = c

(* C24: _categorize_news returns the category with the most keywords        *)
(* present; among those tied for the maximum the first in the declaration   *)
(* order of AINewsCategory; industry_update when no keyword is present.     *)
C24_CategorizeByMaxScore ==
    (unit.fn = "categorize" /\ unit.done) =>
        IF C24_Max(unit.arg) = 0 THEN unit.out = "industry_update"
        ELSE /\ unit.arg[unit.out] = C24_Max(unit.arg)
             /\ \A c \in AICategories :
                  unit.arg[c] = C24_Max(unit.arg) =>
                      C24_Position(unit.out) <= C24_Position(c)

C24_Witness ==
    /\ unit.fn = "categorize" /\ unit.done
    /\ unit.arg["research"] = 2 /\ unit.arg["opinion_analysis"] = 2
    /\ unit.arg["breakthrough"] = 1
    /\ unit.out = "research"

(* C25: _generate_image_url returns the image of the first keyword group    *)
(* that matches the title; when none matches, the default image of the      *)
(* given category, and the generic image only for a category without one.   *)
C25_CategoryDefaultImage ==
    (unit.fn = "image" /\ unit.done) =>
        IF unit.arg # {}
        THEN /\ unit.out.kind = "keyword"
             /\ unit.out.key \in unit.arg
             /\ \A i, j \in 1..Len(ImageGroups) :
                  (ImageGroups[i] \in unit.arg /\ ImageGroups[j] = unit.out.key) => j <= i
        ELSE IF unit.category \in DOMAIN category_image_map
             THEN unit.out = Image("category", category_image_map[unit.category])
             ELSE unit.out.kind = "generic"

(* C29: when the parser synthesizes its fallback candidate,                 *)
(* _validate_news_items rejects it for every min_relevance (its summary     *)
(* has fewer than 10 words) and generate_news returns an empty list with    *)
(* total_generated = 0; total_generated is always the number of             *)
(* candidates returned.                                                     *)
C29_FallbackNeverReturned ==
    (unit.fn = "parse" /\ unit.done /\ ~unit.out.raised) =>
        LET response == unit.out.response[1]
        IN  /\ response.total_generated = Len(response.news_items)
            /\ (\E i \in 1..Len(unit.out.items) :
                   unit.out.items[i].source = "AI Research News") =>
                  /\ unit.out.items[1].summary.words < 10
                  /\ response.news_items = <<>>
                  /\ response.total_generated = 0

C29_Witness ==
    /\ unit.fn = "parse" /\ unit.done /\ ~unit.out.raised
    /\ unit.min_relevance = 0
    /\ unit.count = 1
    /\ unit.out.items = <<FallbackItem(1)>>
    /\ unit.out.response[1].total_generated = 0
C30_SameLink(i, j) == createCalls[1][i].ai_news.link = createCalls[1][j].ai_news.link

C30_Links == {news_items[1][i].link : i \in 1..Len(news_items[1])}

C26_Pair(t, u) ==
    /\ Len(ops) = 2
    /\ ops[t].kind = "toggle" /\ ops[u].kind = "status"
    /\ ops[t].pc = "done" /\ ops[u].pc = "done"
    /\ ops[t].exc = "none" /\ ops[u].exc = "none"

(* C26: when a toggle-favorite call and an update-status call on the same   *)
(* item have both returned, the stored item has the new status and the      *)
(* toggled is_favorite, in every interleaving of their steps.               *)
C26_NoLostUpdate ==
    \A t, u \in DOMAIN ops :
        C26_Pair(t, u) =>
            /\ store[1].status = ops[u].status
            /\ store[1].is_favorite = ~ops[t].item[1].is_favorite

C28_Case ==
    /\ Len(ops) = 2
    /\ \A k \in 1..2 : ops[k].kind = "delete" /\ ops[k].pc = "done"
                          /\ ops[k].exc # "UnauthorizedNewsAccessException"
    /\ ops[1].user_id = ops[2].user_id

C28_State ==
    C28_Case =>
        /\ store = <<>>
        /\ \E k \in 1..2 :
              /\ ops[k].result = <<TRUE>> /\ ops[k].exc = "none"
              /\ ops[3 - k].result = <<>> /\ ops[3 - k].exc = "NewsNotFoundException"

C28_Step ==
    \A k \in DOMAIN ops :
        (ops[k].kind = "delete" /\ ops[k].result # <<TRUE>> /\ ops'[k].result = <<TRUE>>)
            => Len(store') = Len(store) - 1

(* C28: two concurrent deletes of the same existing item by its owner       *)
(* remove it once, exactly one returns True and the other raises            *)
(* NewsNotFoundException; a call returns True only in the step that removes *)
(* the item.                                                                *)
C28_ConcurrentDeletes == []C28_State /\ [][C28_Step]_vars

C28_Witness ==
    /\ C28_Case
    /\ \E k \in 1..2 :
          /\ ops[k].repo = <<"get_by_id", "delete">>
          /\ ops[k].exc = "NewsNotFoundException"
          /\ ops[3 - k].result = <<TRUE>>

(* C27: after any interleaving of CreateUserUseCase.execute calls no two    *)
(* stored users share an email and no two share a username.                 *)
C27_UsersUnique == UsersDistinct(users)

====
